---- MODULE Spec2Model ----
(***************************************************************************)
(* A model of the path tracer alexvasi/raytracer (src/src/*.rs).           *)
(*                                                                         *)
(* Numbers.  The program computes in f32.  The model computes in the       *)
(* extended rationals: a number is a pair <<n, d>> in lowest terms with    *)
(* d >= 0; <<1, 0>> is +infinity, <<-1, 0>> is -infinity and <<0, 0>> is   *)
(* NaN, with the IEEE rules for them (NaN compares false with everything,  *)
(* x / 0 is an infinity, 0 / 0 and inf - inf are NaN).  Sums, products and *)
(* quotients of finite numbers are exact; a square root is rounded down to *)
(* a multiple of 1 / SqrtScale, the model's rounding step.  Signed zeros   *)
(* are not modelled.                                                       *)
(***************************************************************************)
EXTENDS Integers, Sequences, FiniteSets, TLC

\* ------------------------------------------------------------------ bounds
\* The rounding step of a square root is 1 / SqrtScale.
SqrtScale == 16
\* The longest scene aggregate (HittableVec) the hit harness enumerates.
MaxVecLen == 2
\* The number of values the uniform draw rand::random::<f32>() takes.
UniformSteps == 4

\* The largest image width and height the camera is configured with.
MaxImage == 2

\* The largest max_depth ray_color is run with.
MaxDepth == 2

\* The number of worker threads that render a scanline's pixels.
MaxWorkers == 2

\* ------------------------------------------------------------- arithmetic
Abs(i) == IF i < 0 THEN -i ELSE i

Sign(i) == IF i < 0 THEN -1 ELSE IF i > 0 THEN 1 ELSE 0

RECURSIVE GCD(_, _)
GCD(a, b) == IF b = 0 THEN Abs(a) ELSE GCD(b, a % Abs(b))

\* n / d in lowest terms, d >= 0; d = 0 gives an infinity or NaN.
NormBy(n, d, g) == <<(Sign(d) * n) \div g, (Sign(d) * d) \div g>>

Norm(n, d) == IF d = 0 THEN <<Sign(n), 0>> ELSE NormBy(n, d, GCD(n, d))

R(i) == <<i, 1>>

Zero == R(0)

One == R(1)

Inf == <<1, 0>>

NaN == <<0, 0>>

IsNaN(a) == a = NaN

IsFinite(a) == a[2] # 0

RNeg(a) == <<-a[1], a[2]>>

RAbs(a) == <<Abs(a[1]), a[2]>>

\* The sum of two finite numbers over their least common denominator.
AddBy(a, b, g) ==
    Norm(a[1] * (b[2] \div g) + b[1] * (a[2] \div g), (a[2] \div g) * b[2])

RAdd(a, b) ==
    IF IsNaN(a) \/ IsNaN(b) THEN NaN
    ELSE IF ~IsFinite(a) /\ ~IsFinite(b) THEN (IF a = b THEN a ELSE NaN)
    ELSE IF ~IsFinite(a) THEN a
    ELSE IF ~IsFinite(b) THEN b
    ELSE AddBy(a, b, GCD(a[2], b[2]))

RSub(a, b) == RAdd(a, RNeg(b))

\* The product of two finite numbers, cancelled crosswise first.
MulBy(a, b, g1, g2) ==
    Norm((a[1] \div g1) * (b[1] \div g2), (a[2] \div g2) * (b[2] \div g1))

RMul(a, b) ==
    IF ~IsFinite(a) \/ ~IsFinite(b) THEN Norm(a[1] * b[1], 0)
    ELSE IF a[1] = 0 \/ b[1] = 0 THEN Zero
    ELSE MulBy(a, b, GCD(a[1], b[2]), GCD(b[1], a[2]))

\* 1 / b: 1 / 0 is +infinity, 1 / inf is 0.
RInv(b) == IF IsNaN(b) THEN NaN ELSE Norm(Sign(b[1]) * b[2], Abs(b[1]))

RDiv(a, b) ==
    IF IsNaN(a) \/ IsNaN(b) THEN NaN
    ELSE IF b[1] = 0 /\ b[2] # 0 THEN Norm(a[1], 0)
    ELSE RMul(a, RInv(b))

\* a / b < c / d for a, c >= 0 and b, d > 0, by continued fractions, so that
\* no product is formed (1e-8 against a fraction would overflow TLC's integers).
RECURSIVE FracLess(_, _, _, _)
FracLess(a, b, c, d) ==
    IF a \div b # c \div d THEN a \div b < c \div d
    ELSE IF c % d = 0 THEN FALSE
    ELSE IF a % b = 0 THEN TRUE
    ELSE FracLess(d, c % d, b, a % b)

\* The f32 comparison a < b.
RLess(a, b) ==
    IF IsNaN(a) \/ IsNaN(b) \/ a = b THEN FALSE
    ELSE IF ~IsFinite(a) THEN a[1] < 0
    ELSE IF ~IsFinite(b) THEN b[1] > 0
    ELSE IF a[1] < 0 /\ b[1] >= 0 THEN TRUE
    ELSE IF a[1] >= 0 /\ b[1] < 0 THEN FALSE
    ELSE IF a[1] >= 0 THEN FracLess(a[1], a[2], b[1], b[2])
    ELSE FracLess(-b[1], b[2], -a[1], a[2])

\* The f32 comparison a <= b.
RLeq(a, b) == ~IsNaN(a) /\ ~IsNaN(b) /\ (a = b \/ RLess(a, b))

\* f32::min: the other operand when one is NaN.
RMin(a, b) == IF IsNaN(a) THEN b ELSE IF IsNaN(b) THEN a ELSE IF RLess(b, a) THEN b ELSE a

RMax(a, b) == IF IsNaN(a) THEN b ELSE IF IsNaN(b) THEN a ELSE IF RLess(a, b) THEN b ELSE a

\* The largest k in lo .. hi - 1 with k * k <= m, given lo * lo <= m < hi * hi.
RECURSIVE ISqrtIn(_, _, _)
ISqrtIn(m, lo, hi) ==
    IF hi - lo <= 1 THEN lo
    ELSE IF ((lo + hi) \div 2) * ((lo + hi) \div 2) <= m
         THEN ISqrtIn(m, (lo + hi) \div 2, hi)
         ELSE ISqrtIn(m, lo, (lo + hi) \div 2)

ISqrt(m) == ISqrtIn(m, 0, 46341)

\* f32::sqrt: NaN of a negative number, else the root rounded down to a
\* multiple of 1 / SqrtScale.
RSqrt(a) ==
    IF IsNaN(a) \/ a[1] < 0 THEN NaN
    ELSE IF ~IsFinite(a) THEN Inf
    ELSE Norm(ISqrt((a[1] * SqrtScale * SqrtScale) \div a[2]), SqrtScale)

RECURSIVE RPowi(_, _)
RPowi(a, k) == IF k = 0 THEN One ELSE RMul(a, RPowi(a, k - 1))

\* ---------------------------------------------------------------- vectors
\* glam::Vec3 (Point3 and Color3 are aliases of it): <<x, y, z>>.
vec3(x, y, z) == <<x, y, z>>

\* A vector with integer components.
IV(x, y, z) == <<R(x), R(y), R(z)>>

VZero == IV(0, 0, 0)

VAdd(a, b) == <<RAdd(a[1], b[1]), RAdd(a[2], b[2]), RAdd(a[3], b[3])>>

VSub(a, b) == <<RSub(a[1], b[1]), RSub(a[2], b[2]), RSub(a[3], b[3])>>

VNeg(a) == <<RNeg(a[1]), RNeg(a[2]), RNeg(a[3])>>

\* scalar * vector and vector * scalar
VScale(s, a) == <<RMul(s, a[1]), RMul(s, a[2]), RMul(s, a[3])>>

\* vector / scalar
VDiv(a, s) == <<RDiv(a[1], s), RDiv(a[2], s), RDiv(a[3], s)>>

\* the component-wise product of two colours
VMul(a, b) == <<RMul(a[1], b[1]), RMul(a[2], b[2]), RMul(a[3], b[3])>>

Dot(a, b) == RAdd(RAdd(RMul(a[1], b[1]), RMul(a[2], b[2])), RMul(a[3], b[3]))

Cross(a, b) ==
    << RSub(RMul(a[2], b[3]), RMul(a[3], b[2])),
       RSub(RMul(a[3], b[1]), RMul(a[1], b[3])),
       RSub(RMul(a[1], b[2]), RMul(a[2], b[1])) >>

LengthSquared(a) == Dot(a, a)

Length(a) == RSqrt(LengthSquared(a))

\* glam's Vec3::normalize: no check for a zero length.
Normalize(a) == VDiv(a, Length(a))

VFinite(a) == IsFinite(a[1]) /\ IsFinite(a[2]) /\ IsFinite(a[3])

\* Option<T>
None == <<>>

Some(x) == <<x>>

IsSome(o) == o # <<>>

Unwrap(o) == o[1]

\* ------------------------------------------------------------------- rays
\* render.rs: struct Ray, Ray::new
Ray(origin, dir) == [origin |-> origin, dir |-> dir]

\* Ray::at
At(ray, t) == VAdd(ray.origin, VScale(t, ray.dir))

\* -------------------------------------------------------------- materials
\* materials.rs: enum Material and its constructors
new_lambertian(albedo) == [kind |-> "Lambertian", albedo |-> albedo]

new_metal(albedo, fuzz) == [kind |-> "Metal", albedo |-> albedo, fuzz |-> fuzz]

new_dielectric(refract_idx) == [kind |-> "Dielectric", refract_idx |-> refract_idx]

new_light(emit) == [kind |-> "DiffuseLight", emit |-> emit]

\* -------------------------------------------------------------- intervals
\* hittables.rs: struct Interval, Interval::new
Interval(min, max) == [min |-> min, max |-> max]

\* Interval::contains: end points included
Contains(iv, val) == RLeq(iv.min, val) /\ RLeq(val, iv.max)

\* Interval::surrounds: end points excluded
Surrounds(iv, val) == RLess(iv.min, val) /\ RLess(val, iv.max)

\* ------------------------------------------------------------- primitives
\* An operator's intermediate values (the `let`s of the source) are passed on
\* as parameters of a follow-up operator, so that each is computed once.

\* Hit::new, given front_face
HitFacing(p, outward_normal, t, material, front_face) ==
    [ p |-> p,
      normal |-> IF front_face THEN outward_normal ELSE VNeg(outward_normal),
      t |-> t,
      front_face |-> front_face,
      material |-> material ]

\* Hit::new: the stored normal faces the incoming ray, front_face tells
\* whether it is the outward normal.
HitNew(p, outward_normal, ray, t, material) ==
    HitFacing(p, outward_normal, t, material, RLess(Dot(ray.dir, outward_normal), Zero))

\* Sphere::new
SphereNew(center, radius, mat) ==
    [kind |-> "Sphere", center |-> center, radius |-> radius, mat |-> mat]

\* Quad::new, given n = u x v and the unit normal
QuadFrom(q, u, v, mat, n, normal) ==
    [ kind |-> "Quad", q |-> q, u |-> u, v |-> v, mat |-> mat,
      normal |-> normal, d |-> Dot(normal, q), w |-> VDiv(n, Dot(n, n)) ]

\* Quad::new, given n = u x v
QuadOfCross(q, u, v, mat, n) == QuadFrom(q, u, v, mat, n, Normalize(n))

\* Quad::new: the plane's unit normal, its offset d and the basis vector w
QuadNew(q, u, v, mat) == QuadOfCross(q, u, v, mat, Cross(u, v))

\* Translate::new
TranslateNew(offset, object) ==
    [kind |-> "Translate", offset |-> offset, object |-> object]

\* f32::to_radians followed by sin, at the angles (in degrees) the model
\* uses: the multiples of 90, and 37 for atan(3/4) = 36.87 degrees, the
\* angle whose sine and cosine are the rationals 3/5 and 4/5.
SinDeg(angle) ==
    CASE angle = 0 -> Zero
      [] angle = 90 -> One
      [] angle = -90 -> R(-1)
      [] angle = 180 -> Zero
      [] angle = -180 -> Zero
      [] angle = 37 -> Norm(3, 5)
      [] angle = -37 -> Norm(-3, 5)

\* f32::to_radians followed by cos, at the same angles.
CosDeg(angle) ==
    CASE angle = 0 -> One
      [] angle = 90 -> Zero
      [] angle = -90 -> Zero
      [] angle = 180 -> R(-1)
      [] angle = -180 -> R(-1)
      [] angle = 37 -> Norm(4, 5)
      [] angle = -37 -> Norm(4, 5)

\* RotateY::new
RotateYNew(angle, object) ==
    [ kind |-> "RotateY", sin_theta |-> SinDeg(angle), cos_theta |-> CosDeg(angle),
      object |-> object ]

\* A HittableVec owning the primitives objs, in this order.
VecNew(objs) == [kind |-> "Vec", objs |-> objs]

\* Hittable::hit, dispatched on the primitive's kind (defined below).
RECURSIVE Hit(_, _, _)

\* Sphere::hit: the half-b form of the ray/sphere quadratic, given oc
SphereQuadraticOf(self, ray, oc) ==
    [ a |-> LengthSquared(ray.dir),
      half_b |-> Dot(oc, ray.dir),
      c |-> RSub(LengthSquared(oc), RMul(self.radius, self.radius)) ]

\* Sphere::hit: a, half_b and c
SphereQuadratic(self, ray) ==
    SphereQuadraticOf(self, ray, VSub(ray.origin, self.center))

\* Sphere::hit: the discriminant half_b^2 - a c
Discriminant(q) == RSub(RMul(q.half_b, q.half_b), RMul(q.a, q.c))

\* Sphere::hit: the root (-half_b + sign * sqrtd) / a, sign -1 or 1
SphereRoot(q, sqrtd, sign) == RDiv(RAdd(RNeg(q.half_b), RMul(R(sign), sqrtd)), q.a)

\* Sphere::hit: the hit at the chosen root t, given the point p = ray.at(t)
SphereHitAtPoint(self, ray, t, p) ==
    Some(HitNew(p, VDiv(VSub(p, self.center), self.radius), ray, t, self.mat))

\* Sphere::hit: the hit at the chosen root t
SphereHitAt(self, ray, t) == SphereHitAtPoint(self, ray, t, At(ray, t))

\* A faulty variant of SphereHitRoots: the end points of the interval are accepted.
SphereHitRootsClosed(self, ray, ray_t, root1, root2) ==
    IF Contains(ray_t, root1) THEN SphereHitAt(self, ray, root1)
    ELSE IF Contains(ray_t, root2) THEN SphereHitAt(self, ray, root2)
    ELSE None

\* Sphere::hit: the smaller root if the interval surrounds it, else the larger
SphereHitRoots(self, ray, ray_t, root1, root2) ==
    IF Surrounds(ray_t, root1) THEN SphereHitAt(self, ray, root1)
    ELSE IF Surrounds(ray_t, root2) THEN SphereHitAt(self, ray, root2)
    ELSE None

\* Sphere::hit, given the discriminant's square root
SphereHitSqrt(self, ray, ray_t, q, sqrtd) ==
    SphereHitRoots(self, ray, ray_t, SphereRoot(q, sqrtd, -1), SphereRoot(q, sqrtd, 1))

\* Sphere::hit, given the quadratic and its discriminant
SphereHitDisc(self, ray, ray_t, q, discriminant) ==
    IF RLess(discriminant, Zero) THEN None
    ELSE SphereHitSqrt(self, ray, ray_t, q, RSqrt(discriminant))

\* Sphere::hit, given the quadratic
SphereHitQuadratic(self, ray, ray_t, q) ==
    SphereHitDisc(self, ray, ray_t, q, Discriminant(q))

\* impl Hittable for Sphere
SphereHit(self, ray, ray_t) ==
    SphereHitQuadratic(self, ray, ray_t, SphereQuadratic(self, ray))

\* Quad::hit's EPSILON, 1e-8
QuadEpsilon == Norm(1, 100000000)

\* Quad::hit: denom, the plane normal along the ray direction
QuadDenom(self, ray) == Dot(self.normal, ray.dir)

\* Quad::hit: t, the ray parameter at the plane
QuadT(self, ray, denom) == RDiv(RSub(self.d, Dot(self.normal, ray.origin)), denom)

\* Quad::hit: the planar coordinates alpha and beta, given planar_hit_vector
QuadPlanarOf(self, planar_hit_vector) ==
    [ alpha |-> Dot(self.w, Cross(planar_hit_vector, self.v)),
      beta |-> Dot(self.w, Cross(self.u, planar_hit_vector)) ]

\* Quad::hit: the planar coordinates of the plane point
QuadPlanar(self, intersection) == QuadPlanarOf(self, VSub(intersection, self.q))

\* A faulty variant of QuadInside: the upper bound of beta is not checked.
QuadInsideNoBetaMax(alpha, beta) ==
    ~(RLess(alpha, Zero) \/ RLess(One, alpha) \/ RLess(beta, Zero))

\* Quad::hit: the quad holds the plane point with these coordinates
QuadInside(alpha, beta) ==
    ~(RLess(alpha, Zero) \/ RLess(One, alpha) \/ RLess(beta, Zero) \/ RLess(One, beta))

\* Quad::hit, given alpha and beta
QuadHitPlanar(self, ray, t, intersection, ab) ==
    IF ~QuadInside(ab.alpha, ab.beta) THEN None
    ELSE Some(HitNew(intersection, self.normal, ray, t, self.mat))

\* Quad::hit, given the plane point
QuadHitPoint(self, ray, t, intersection) ==
    QuadHitPlanar(self, ray, t, intersection, QuadPlanar(self, intersection))

\* Quad::hit, given t
QuadHitT(self, ray, ray_t, t) ==
    IF ~Contains(ray_t, t) THEN None ELSE QuadHitPoint(self, ray, t, At(ray, t))

\* Quad::hit, given denom
QuadHitDenom(self, ray, ray_t, denom) ==
    IF RLess(RAbs(denom), QuadEpsilon) THEN None
    ELSE QuadHitT(self, ray, ray_t, QuadT(self, ray, denom))

\* impl Hittable for Quad
QuadHit(self, ray, ray_t) == QuadHitDenom(self, ray, ray_t, QuadDenom(self, ray))

\* HittableVec::hit before its loop: closest_hit and closest_t
VecHitStart(ray_t) == [closest_hit |-> None, closest_t |-> ray_t.max]

\* A faulty variant of VecHitInterval: the interval is never narrowed.
VecHitIntervalWhole(st, ray_t) == Interval(ray_t.min, ray_t.max)

\* The interval HittableVec::hit passes to the next primitive
VecHitInterval(st, ray_t) == Interval(ray_t.min, st.closest_t)

\* HittableVec::hit's loop body, given what the primitive returned
VecHitTake(st, got) ==
    IF IsSome(got) THEN [closest_hit |-> got, closest_t |-> Unwrap(got).t] ELSE st

\* One iteration of HittableVec::hit's loop, on the primitive obj
VecHitStep(st, obj, ray, ray_t) ==
    VecHitTake(st, Hit(obj, ray, VecHitInterval(st, ray_t)))

\* HittableVec::hit's loop over the first n owned primitives
RECURSIVE VecHitUpTo(_, _, _, _)
VecHitUpTo(objs, n, ray, ray_t) ==
    IF n = 0 THEN VecHitStart(ray_t)
    ELSE VecHitStep(VecHitUpTo(objs, n - 1, ray, ray_t), objs[n], ray, ray_t)

\* impl Hittable for HittableVec
VecHit(self, ray, ray_t) ==
    VecHitUpTo(self.objs, Len(self.objs), ray, ray_t).closest_hit

\* A faulty variant of TranslateBack: the hit point is left in the wrapped frame.
TranslateBackUnmoved(self, got) == got

\* Translate::hit: the wrapped primitive's hit, moved back by offset
TranslateBack(self, got) ==
    IF IsSome(got) THEN Some([Unwrap(got) EXCEPT !.p = VAdd(@, self.offset)]) ELSE None

\* Translate::hit: offset_r, the ray moved by -offset
TranslateRay(self, ray) == Ray(VSub(ray.origin, self.offset), ray.dir)

\* impl Hittable for Translate
TranslateHit(self, ray, ray_t) ==
    TranslateBack(self, Hit(self.object, TranslateRay(self, ray), ray_t))

\* RotateY::hit: a vector of the outer frame in the object's frame
RotateYIn(s, c, v) ==
    vec3(RSub(RMul(c, v[1]), RMul(s, v[3])),
         v[2],
         RAdd(RMul(s, v[1]), RMul(c, v[3])))

\* RotateY::hit: rotated_r
RotateYRay(self, ray) ==
    Ray(RotateYIn(self.sin_theta, self.cos_theta, ray.origin),
        RotateYIn(self.sin_theta, self.cos_theta, ray.dir))

\* RotateY::hit: the hit point, back in the outer frame
RotateYPoint(s, c, p) ==
    vec3(RAdd(RMul(c, p[1]), RMul(s, p[3])),
         p[2],
         RAdd(RMul(RNeg(s), p[1]), RMul(c, p[3])))

\* RotateY::hit: the normal it stores in the returned hit
RotateYNormal(s, c, n) ==
    vec3(RAdd(RMul(c, n[1]), RMul(s, n[3])),
         n[2],
         RAdd(RSub(n[2], RMul(s, n[1])), RMul(c, n[3])))

\* RotateY::hit: the wrapped primitive's hit, in the outer frame
RotateYBack(self, got) ==
    IF IsSome(got)
    THEN Some([Unwrap(got) EXCEPT
                 !.p = RotateYPoint(self.sin_theta, self.cos_theta, @),
                 !.normal = RotateYNormal(self.sin_theta, self.cos_theta, @)])
    ELSE None

\* impl Hittable for RotateY
RotateYHit(self, ray, ray_t) ==
    RotateYBack(self, Hit(self.object, RotateYRay(self, ray), ray_t))

Hit(obj, ray, ray_t) ==
    CASE obj.kind = "Sphere" -> SphereHit(obj, ray, ray_t)
      [] obj.kind = "Quad" -> QuadHit(obj, ray, ray_t)
      [] obj.kind = "Vec" -> VecHit(obj, ray, ray_t)
      [] obj.kind = "Translate" -> TranslateHit(obj, ray, ray_t)
      [] obj.kind = "RotateY" -> RotateYHit(obj, ray, ray_t)

\* make_box, given its corners min and max and its edges dx, dy, dz
BoxQuads(min, max, dx, dy, dz, mat) ==
    VecNew(<< QuadNew(vec3(min[1], min[2], max[3]), dx, dy, mat),
              QuadNew(vec3(max[1], min[2], max[3]), VNeg(dz), dy, mat),
              QuadNew(vec3(max[1], min[2], min[3]), VNeg(dx), dy, mat),
              QuadNew(vec3(min[1], min[2], min[3]), dz, dy, mat),
              QuadNew(vec3(min[1], max[2], max[3]), dx, VNeg(dz), mat),
              QuadNew(vec3(min[1], min[2], min[3]), dx, dz, mat) >>)

\* make_box, given its corners min and max
BoxOf(min, max, mat) ==
    BoxQuads(min, max,
             vec3(RSub(max[1], min[1]), Zero, Zero),
             vec3(Zero, RSub(max[2], min[2]), Zero),
             vec3(Zero, Zero, RSub(max[3], min[3])), mat)

\* make_box: the six quads of the box spanned by the corners a and b
make_box(a, b, mat) ==
    BoxOf(vec3(RMin(a[1], b[1]), RMin(a[2], b[2]), RMin(a[3], b[3])),
          vec3(RMax(a[1], b[1]), RMax(a[2], b[2]), RMax(a[3], b[3])), mat)

\* ------------------------------------------------------ material scatter
\* materials.rs: reflect
Reflect(v, normal) == VSub(v, VScale(RMul(R(2), Dot(v, normal)), normal))

\* refract, given r_out_perp
RefractFrom(normal, r_out_perp) ==
    VAdd(r_out_perp,
         VScale(RNeg(RSqrt(RAbs(RSub(One, LengthSquared(r_out_perp))))), normal))

\* materials.rs: refract
Refract(uv, normal, etai_over_etat) ==
    RefractFrom(normal,
        VScale(etai_over_etat, VAdd(uv, VScale(RMin(Dot(VNeg(uv), normal), One), normal))))

\* is_near_zero's EPSILON, 1e-8
NearZeroEpsilon == Norm(1, 100000000)

\* materials.rs: is_near_zero
IsNearZero(v) ==
    /\ RLess(RAbs(v[1]), NearZeroEpsilon)
    /\ RLess(RAbs(v[2]), NearZeroEpsilon)
    /\ RLess(RAbs(v[3]), NearZeroEpsilon)

\* random_sphere_vec3: what the three gen_range(-1.0..1.0) draws of one
\* iteration of its loop can give.  The range holds -1 and not 1.
SphereCandidates ==
    { vec3(Norm(1, 2), Zero, Zero), vec3(Norm(-1, 2), Zero, Zero),
      vec3(Zero, Norm(1, 2), Zero), vec3(Zero, Norm(-1, 2), Zero),
      vec3(Zero, Zero, Norm(1, 2)), vec3(Zero, Zero, Norm(-1, 2)),
      vec3(Norm(1, 2), Norm(1, 2), Zero), vec3(Zero, Zero, Zero),
      vec3(R(-1), Zero, Zero), vec3(R(-1), R(-1), R(-1)) }

\* random_sphere_vec3: the vectors it can return, the accepted candidates
\* (length_squared < 1) normalized.
RandomSphereVec3 ==
    {Normalize(v) : v \in {c \in SphereCandidates : RLess(LengthSquared(c), One)}}

\* struct Scattered
Scattered(r, attenuation) == [ray |-> r, attenuation |-> attenuation]

\* A faulty variant of LambertianFrom: a near-zero scatter_dir is kept.
LambertianFromUnchecked(h, albedo, scatter_dir) ==
    Some(Scattered(Ray(h.p, scatter_dir), albedo))

\* Material::scatter, Lambertian, given scatter_dir before the near-zero test
LambertianFrom(h, albedo, scatter_dir) ==
    Some(Scattered(Ray(h.p, IF IsNearZero(scatter_dir) THEN h.normal ELSE scatter_dir),
                   albedo))

\* Material::scatter, Lambertian; rnd is what random_sphere_vec3 returned
ScatterLambertian(h, albedo, rnd) == LambertianFrom(h, albedo, VAdd(h.normal, rnd))

\* Material::scatter, Metal: the fuzz-perturbed reflection
MetalDir(r, h, fuzz, rnd) ==
    VAdd(Reflect(Normalize(r.dir), h.normal),
         VScale(IF RLess(fuzz, One) THEN fuzz ELSE One, rnd))

\* Material::scatter, Metal, given the scattered ray
MetalFrom(h, albedo, scattered) ==
    IF RLess(Zero, Dot(scattered.dir, h.normal))
    THEN Some(Scattered(scattered, albedo))
    ELSE None

\* Material::scatter, Metal
ScatterMetal(r, h, albedo, fuzz, rnd) ==
    MetalFrom(h, albedo, Ray(h.p, MetalDir(r, h, fuzz, rnd)))

\* Material::scatter, Dielectric: reflectance, given r0 squared
ReflectanceOf(r0, cos_theta) ==
    RAdd(r0, RMul(RSub(One, r0), RPowi(RSub(One, cos_theta), 5)))

\* r0 * r0
Square(x) == RMul(x, x)

\* Material::scatter, Dielectric: Schlick's reflectance
Reflectance(refract_ratio, cos_theta) ==
    ReflectanceOf(Square(RDiv(RSub(One, refract_ratio), RAdd(One, refract_ratio))),
                  cos_theta)

\* Material::scatter, Dielectric: sin_theta
SinTheta(cos_theta) == RSqrt(RSub(One, RMul(cos_theta, cos_theta)))

\* Material::scatter, Dielectric: the direction, given cos_theta; u is what
\* rand::random::<f32>() returned
DielectricDirOf(unit_dir, normal, refract_ratio, cos_theta, u) ==
    IF \/ RLess(One, RMul(refract_ratio, SinTheta(cos_theta)))
       \/ RLess(u, Reflectance(refract_ratio, cos_theta))
    THEN Reflect(unit_dir, normal)
    ELSE Refract(unit_dir, normal, refract_ratio)

\* Material::scatter, Dielectric: the direction, given unit_dir
DielectricDir(unit_dir, normal, refract_ratio, u) ==
    DielectricDirOf(unit_dir, normal, refract_ratio,
                    RMin(Dot(VNeg(unit_dir), normal), One), u)

\* Material::scatter, Dielectric
ScatterDielectric(r, h, refract_idx, u) ==
    Some(Scattered(
        Ray(h.p, DielectricDir(Normalize(r.dir), h.normal,
                               IF h.front_face THEN RDiv(One, refract_idx) ELSE refract_idx,
                               u)),
        IV(1, 1, 1)))

\* Material::scatter; rnd and u are the random draws it makes
Scatter(r, h, rnd, u) ==
    CASE h.material.kind = "Lambertian" -> ScatterLambertian(h, h.material.albedo, rnd)
      [] h.material.kind = "Metal" ->
             ScatterMetal(r, h, h.material.albedo, h.material.fuzz, rnd)
      [] h.material.kind = "Dielectric" -> ScatterDielectric(r, h, h.material.refract_idx, u)
      [] h.material.kind = "DiffuseLight" -> None

\* rand::random::<f32>(): the values in [0, 1) the model enumerates.
Uniforms == {Norm(k, UniformSteps) : k \in 0 .. UniformSteps - 1}

\* The random draws Material::scatter makes at a hit of this material: a
\* Lambertian and a Metal call random_sphere_vec3, a Dielectric calls
\* rand::random::<f32>() (u, in Uniforms), a DiffuseLight draws nothing.
DrawsFor(material) ==
    CASE material.kind \in {"Lambertian", "Metal"} ->
             {[rnd |-> v, u |-> None] : v \in RandomSphereVec3}
      [] material.kind = "Dielectric" -> {[rnd |-> None, u |-> x] : x \in Uniforms}
      [] material.kind = "DiffuseLight" -> {[rnd |-> None, u |-> None]}

\* Material::emitted
Emitted(material) == IF material.kind = "DiffuseLight" THEN material.emit ELSE VZero

\* ----------------------------------------------------------------- camera
\* Camera::builder: the configuration with its defaults
CameraBuilder(image_width, image_height) ==
    [ image_width |-> image_width,
      image_height |-> image_height,
      samples_per_pixel |-> 10,
      max_depth |-> 10,
      background |-> IV(1, 1, 1),
      v_fov |-> 90,
      look_from |-> IV(0, 0, -1),
      look_at |-> IV(0, 0, 0),
      vup |-> IV(0, 1, 0),
      defocus_angle |-> 0,
      focus_dist |-> R(10) ]

\* (angle.to_radians() / 2.0).tan(), at the angles (in degrees) the model
\* uses: 0, 90, and 53 for 2 atan(1/2) = 53.13 degrees.
TanHalfDeg(angle) ==
    CASE angle = 0 -> Zero
      [] angle = 90 -> One
      [] angle = 53 -> Norm(1, 2)

\* Camera::new: viewport_height
ViewportHeight(b) == RMul(RMul(R(2), TanHalfDeg(b.v_fov)), b.focus_dist)

\* Camera::new: viewport_width; `as f32` of the u32 image sizes is exact
ViewportWidth(b, viewport_height) ==
    RMul(viewport_height, RDiv(R(b.image_width), R(b.image_height)))

\* Camera::new: defocus_radius
DefocusRadius(b) == RMul(b.focus_dist, TanHalfDeg(b.defocus_angle))

\* Camera::new: the Camera, given all it derives
CameraOf(b, u, v, pixel_delta_u, pixel_delta_v, viewport_upper_left, defocus_radius) ==
    [ samples_per_pixel |-> b.samples_per_pixel,
      max_depth |-> b.max_depth,
      background |-> b.background,
      center |-> b.look_from,
      pixel00_loc |-> VAdd(viewport_upper_left,
                           VScale(Norm(1, 2), VAdd(pixel_delta_u, pixel_delta_v))),
      pixel_delta_u |-> pixel_delta_u,
      pixel_delta_v |-> pixel_delta_v,
      defocus_angle |-> b.defocus_angle,
      defocus_disk_u |-> VScale(defocus_radius, u),
      defocus_disk_v |-> VScale(defocus_radius, v) ]

\* Camera::new, given the basis and the viewport edges
CameraOfViewport(b, w, u, v, viewport_u, viewport_v) ==
    CameraOf(b, u, v,
             VDiv(viewport_u, R(b.image_width)),
             VDiv(viewport_v, R(b.image_height)),
             VSub(VSub(VSub(b.look_from, VScale(b.focus_dist, w)),
                       VDiv(viewport_u, R(2))),
                  VDiv(viewport_v, R(2))),
             DefocusRadius(b))

\* Camera::new, given the basis and viewport_height
CameraOfBasis(b, w, u, v, viewport_height) ==
    CameraOfViewport(b, w, u, v,
                     VScale(ViewportWidth(b, viewport_height), u),
                     VScale(viewport_height, VNeg(v)))

\* Camera::new, given w and u
CameraOfWU(b, w, u) == CameraOfBasis(b, w, u, Cross(w, u), ViewportHeight(b))

\* Camera::new, given w
CameraOfW(b, w) == CameraOfWU(b, w, Normalize(Cross(b.vup, w)))

\* Camera::new
CameraNew(b) == CameraOfW(b, Normalize(VSub(b.look_from, b.look_at)))

\* CameraBuilder::build
build(self) == CameraNew(self)

\* CameraBuilder's setters
samples(self, n) == [self EXCEPT !.samples_per_pixel = n]

\* A faulty variant of max_depth: the value goes to samples_per_pixel.
max_depth_to_samples(self, n) == [self EXCEPT !.samples_per_pixel = n]

max_depth(self, n) == [self EXCEPT !.max_depth = n]

background(self, c) == [self EXCEPT !.background = c]

vert_fov(self, angle) == [self EXCEPT !.v_fov = angle]

look_from(self, from) == [self EXCEPT !.look_from = from]

look_at(self, at) == [self EXCEPT !.look_at = at]

look_up(self, up) == [self EXCEPT !.vup = up]

defocus_angle(self, angle) == [self EXCEPT !.defocus_angle = angle]

focus_dist(self, dist) == [self EXCEPT !.focus_dist = dist]

\* ----------------------------------------------------- radiance integration
\* ray_color's EPSILON, 0.001
ColorEpsilon == Norm(1, 1000)

\* The interval ray_color searches the scene over
ColorInterval == Interval(ColorEpsilon, Inf)

\* What a call of ray_color does before it returns or calls itself: it
\* returns value, or it calls ray_color(ray, depth - 1, world) and keeps
\* emission_color and attenuation for when that call returns.
Returns(value) == [kind |-> "return", value |-> value]

Recurses(emission_color, sc) ==
    [ kind |-> "recurse", emission_color |-> emission_color,
      attenuation |-> sc.attenuation, ray |-> sc.ray ]

\* ray_color, given what Material::scatter returned
RayColorOnScatter(emission_color, sc) ==
    IF IsSome(sc) THEN Recurses(emission_color, Unwrap(sc))
    ELSE Returns(VAdd(emission_color, IV(0, 0, 0)))

\* ray_color, given the hit
RayColorOnHit(r, h, d) ==
    RayColorOnScatter(Emitted(h.material), Scatter(r, h, d.rnd, d.u))

\* ray_color, given what world.hit returned; draw gives the random draws
\* Material::scatter makes
RayColorOnWorld(cam, r, got, d) ==
    IF got = None THEN Returns(cam.background)
    ELSE RayColorOnHit(r, Unwrap(got), d)

\* What world.hit returns to ray_color
WorldHit(world, r) == Hit(world, r, ColorInterval)

\* A faulty variant of RayColorEnter: a call with depth 0 returns the background.
RayColorEnterBackground(cam, r, depth, world, d) ==
    IF depth = 0 THEN Returns(cam.background)
    ELSE RayColorOnWorld(cam, r, WorldHit(world, r), d)

\* Camera::ray_color, up to its recursive call
RayColorEnter(cam, r, depth, world, d) ==
    IF depth = 0 THEN Returns(IV(0, 0, 0))
    ELSE RayColorOnWorld(cam, r, WorldHit(world, r), d)

\* A faulty variant of RayColorResume: the callee's radiance is not attenuated.
RayColorResumeUnattenuated(emission_color, attenuation, child) ==
    VAdd(emission_color, child)

\* Camera::ray_color, after its recursive call returned child
RayColorResume(emission_color, attenuation, child) ==
    VAdd(emission_color, VMul(attenuation, child))

\* ------------------------------------------------------------------ state
VARIABLES
    pc,             \* the position of the running operation
    obj,            \* hit test: the primitive asked
    ray,            \* hit test and scatter: the incoming ray
    ray_t,          \* hit test: the search interval
    hit,            \* hit test: the Option<Hit> returned
    idx,            \* HittableVec::hit: the index of the next owned primitive
    closest,        \* HittableVec::hit: closest_hit and closest_t
    passed,         \* HittableVec::hit: the intervals passed to the primitives so far
    in_hit,         \* scatter: the hit scattered at
    drawn,          \* scatter: what random_sphere_vec3 and rand::random returned
    scattered,      \* scatter: the Option<Scattered> returned
    builder,        \* camera: the CameraBuilder
    camera,         \* camera: the Camera built
    last_call,      \* camera: per field, the argument of the last call that gave it
    world,          \* ray_color: the scene
    stack,          \* ray_color: the calls waiting for their recursive call
    call,           \* ray_color: the arguments of the running call
    ret,            \* ray_color: the call that returned last, with its value
    queries,        \* ray_color: the number of world.hit calls of the sample so far
    line,           \* driver: y, the scanline being rendered
    todo,           \* driver: the pixels x of the scanline no worker has taken yet
    work,           \* driver: per worker, the pixel x it is rendering
    scanline,       \* driver: the buffer collect_into_vec fills, per position
    canvas,         \* driver: the Canvas
    rendered        \* driver: per pixel, what the calls of render for it returned

hitVars == <<obj, ray, ray_t, hit, idx, closest, passed>>

scatterVars == <<in_hit, drawn, scattered>>

cameraVars == <<builder, camera, last_call>>

colorVars == <<world, stack, call, ret, queries>>

driverVars == <<line, todo, work, scanline, canvas, rendered>>

vars == <<pc, hitVars, scatterVars, cameraVars, colorVars, driverVars>>

\* The variables of the hit test, when no hit test runs.
HitIdle ==
    /\ obj = None /\ ray_t = None /\ hit = None
    /\ idx = 0 /\ closest = None /\ passed = <<>>

\* The variables of the scatter harness, when it does not run.
ScatterIdle == in_hit = None /\ drawn = None /\ scattered = None

\* The variables of the camera, when none is configured.
CameraIdle == builder = None /\ camera = None /\ last_call = None

\* The variables of ray_color, when it does not run.
ColorIdle ==
    world = None /\ stack = <<>> /\ call = None /\ ret = None /\ queries = 0

\* The variables of the driver, when it does not run.
DriverIdle ==
    /\ line = 0 /\ todo = {} /\ work = None
    /\ scanline = None /\ canvas = None /\ rendered = None

\* --------------------------------------------------- hit test: the inputs
MatA == new_lambertian(vec3(Norm(1, 2), Norm(1, 2), Norm(1, 2)))

MatB == new_light(IV(4, 4, 4))

\* The unit sphere at the origin, a larger one off the axis, and one of
\* negative radius (main.rs builds a hollow glass sphere that way).
Spheres ==
    { SphereNew(IV(0, 0, 0), R(1), MatA),
      SphereNew(IV(0, 1, 0), R(2), MatB),
      SphereNew(IV(0, 0, 0), R(-1), MatB) }

\* A quad in the plane z = 2, one in the plane y = 1, one tilted with a
\* rational unit normal (4/5, 0, -3/5) and one tilted with an irrational one.
Quads ==
    { QuadNew(IV(-1, -1, 2), IV(2, 0, 0), IV(0, 2, 0), MatA),
      QuadNew(IV(-1, 1, -1), IV(2, 0, 0), IV(0, 0, 2), MatB),
      QuadNew(IV(0, -1, 0), IV(0, 2, 0), IV(3, 0, 4), MatA),
      QuadNew(IV(-1, -1, 1), IV(1, 0, 1), IV(0, 2, 0), MatB) }

Leaves == Spheres \cup Quads

Offsets == {IV(1, 0, 0), IV(0, -1, 2)}

Angles == {90, 37, 180}

Translates == {TranslateNew(o, p) : o \in Offsets, p \in Leaves}

Rotates == {RotateYNew(a, p) : a \in Angles \cup {0}, p \in Leaves}

\* A primitive rotated by an angle and then by the opposite angle.
DoubleRotates == {RotateYNew(-a, RotateYNew(a, p)) : a \in Angles, p \in Leaves}

\* A rotated, translated box, as main.rs's cornell_box places its boxes.
Boxes ==
    { TranslateNew(o, RotateYNew(a, make_box(IV(0, 0, 0), IV(1, 2, 1), MatA))) :
        o \in Offsets, a \in {0, 90} }

\* What the enumerated aggregates own.
VecItems ==
    { SphereNew(IV(0, 0, 0), R(1), MatA),
      SphereNew(IV(0, 1, 0), R(2), MatB),
      QuadNew(IV(-1, -1, 2), IV(2, 0, 0), IV(0, 2, 0), MatA),
      QuadNew(IV(-1, -1, 1), IV(2, 0, 0), IV(0, 2, 0), MatB),
      TranslateNew(IV(0, -1, 2), SphereNew(IV(0, 0, 0), R(1), MatB)),
      RotateYNew(90, QuadNew(IV(-1, -1, 2), IV(2, 0, 0), IV(0, 2, 0), MatB)) }

SeqsUpTo(S, n) == UNION {[1 .. k -> S] : k \in 0 .. n}

Vecs == {VecNew(objs) : objs \in SeqsUpTo(VecItems, MaxVecLen)}

HitObjects == Leaves \cup Translates \cup Rotates \cup DoubleRotates \cup Boxes \cup Vecs

HitRays ==
    { Ray(IV(0, 0, -2), IV(0, 0, 1)),
      Ray(IV(0, 0, -2), IV(0, 0, 2)),
      Ray(IV(1, 0, -2), IV(0, 0, 1)),
      Ray(IV(1, 1, -2), IV(0, 0, 1)),
      Ray(IV(0, 0, 0), IV(0, 1, 0)),
      Ray(IV(0, 0, 0), IV(1, 0, 1)),
      Ray(IV(0, 3, 0), IV(0, -1, 0)),
      Ray(IV(-2, 0, 0), IV(1, 0, 0)),
      Ray(IV(-2, 0, -2), IV(1, 1, 2)),
      Ray(IV(0, 2, -2), IV(1, 0, 0)) }

\* The interval ray_color searches, and bounded ones whose end points are
\* roots of some of the enumerated rays and primitives.
HitIntervals ==
    { Interval(ColorEpsilon, Inf),
      Interval(R(1), R(3)),
      Interval(R(1), R(4)),
      Interval(R(0), R(2)),
      Interval(ColorEpsilon, R(1)) }

\* ---------------------------------------------------- hit test: the steps
HitInit ==
    /\ pc = "call"
    /\ obj \in HitObjects
    /\ ray \in HitRays
    /\ ray_t \in HitIntervals
    /\ hit = None
    /\ idx = 0
    /\ closest = VecHitStart(ray_t)
    /\ passed = <<>>
    /\ ScatterIdle
    /\ CameraIdle
    /\ ColorIdle
    /\ DriverIdle

\* Sphere::hit(ray, ray_t)
CallSphereHit ==
    /\ pc = "call" /\ obj.kind = "Sphere"
    /\ hit' = SphereHit(obj, ray, ray_t)
    /\ pc' = "done"
    /\ UNCHANGED <<obj, ray, ray_t, idx, closest, passed, scatterVars, cameraVars, colorVars, driverVars>>

\* Quad::hit(ray, ray_t)
CallQuadHit ==
    /\ pc = "call" /\ obj.kind = "Quad"
    /\ hit' = QuadHit(obj, ray, ray_t)
    /\ pc' = "done"
    /\ UNCHANGED <<obj, ray, ray_t, idx, closest, passed, scatterVars, cameraVars, colorVars, driverVars>>

\* Translate::hit(ray, ray_t)
CallTranslateHit ==
    /\ pc = "call" /\ obj.kind = "Translate"
    /\ hit' = TranslateHit(obj, ray, ray_t)
    /\ pc' = "done"
    /\ UNCHANGED <<obj, ray, ray_t, idx, closest, passed, scatterVars, cameraVars, colorVars, driverVars>>

\* RotateY::hit(ray, ray_t)
CallRotateYHit ==
    /\ pc = "call" /\ obj.kind = "RotateY"
    /\ hit' = RotateYHit(obj, ray, ray_t)
    /\ pc' = "done"
    /\ UNCHANGED <<obj, ray, ray_t, idx, closest, passed, scatterVars, cameraVars, colorVars, driverVars>>

\* HittableVec::hit, entered: closest_hit = None, closest_t = ray_t.max
VecHitEnter ==
    /\ pc = "call" /\ obj.kind = "Vec"
    /\ closest' = VecHitStart(ray_t)
    /\ idx' = 1
    /\ pc' = "loop"
    /\ UNCHANGED <<obj, ray, ray_t, hit, passed, scatterVars, cameraVars, colorVars, driverVars>>

\* HittableVec::hit, one iteration of `for obj in self`
VecHitNext ==
    /\ pc = "loop" /\ idx <= Len(obj.objs)
    /\ passed' = Append(passed, VecHitInterval(closest, ray_t))
    /\ closest' = VecHitStep(closest, obj.objs[idx], ray, ray_t)
    /\ idx' = idx + 1
    /\ UNCHANGED <<pc, obj, ray, ray_t, hit, scatterVars, cameraVars, colorVars, driverVars>>

\* HittableVec::hit, after the loop: closest_hit is returned
VecHitReturn ==
    /\ pc = "loop" /\ idx > Len(obj.objs)
    /\ hit' = closest.closest_hit
    /\ pc' = "done"
    /\ UNCHANGED <<obj, ray, ray_t, idx, closest, passed, scatterVars, cameraVars, colorVars, driverVars>>

HitNext ==
    \/ CallSphereHit
    \/ CallQuadHit
    \/ CallTranslateHit
    \/ CallRotateYHit
    \/ VecHitEnter
    \/ VecHitNext
    \/ VecHitReturn

SpecHit == HitInit /\ [][HitNext]_vars

\* ------------------------------------------------ hit test: the properties
\* | |v|^2 - 1 | <= 1/8: unit length, up to the rounding of the square roots.
UnitLength(v) == RLeq(RAbs(RSub(LengthSquared(v), One)), Norm(1, 8))

\* What the first n owned primitives report when each is asked alone over
\* the whole search interval.
Reports(n) == {Unwrap(h) : h \in {Hit(obj.objs[i], ray, ray_t) : i \in 1 .. n} \ {None}}

\* The least t among the reports rs (rs is not empty).
MinT(rs) == (CHOOSE r \in rs : \A r2 \in rs : RLeq(r.t, r2.t)).t

\* closest_t after the first n owned primitives, from their reports.
NearestUpTo(n) == IF Reports(n) = {} THEN ray_t.max ELSE MinT(Reports(n))

\* C3: the aggregate returns none exactly when no owned primitive reports a
\* hit within the search interval, otherwise a hit at the least t reported
\* within it; and the k-th primitive is asked over [ray_t.min, closest t of
\* the primitives before it].
C3_NearestHit ==
    obj.kind = "Vec" =>
        /\ \A k \in 1 .. Len(passed) :
               passed[k] = Interval(ray_t.min, NearestUpTo(k - 1))
        /\ pc = "done" =>
               /\ (hit = None) <=> (Reports(Len(obj.objs)) = {})
               /\ IsSome(hit) =>
                      /\ Unwrap(hit).t = MinT(Reports(Len(obj.objs)))
                      /\ Contains(ray_t, Unwrap(hit).t)

\* An aggregate whose first primitive reports a nearer hit than its second:
\* the second is asked over the narrowed interval and the first's hit stays.
C3_Witness ==
    /\ pc = "done" /\ obj.kind = "Vec" /\ Len(obj.objs) = 2
    /\ IsSome(Hit(obj.objs[1], ray, ray_t))
    /\ IsSome(Hit(obj.objs[2], ray, ray_t))
    /\ RLess(Unwrap(Hit(obj.objs[1], ray, ray_t)).t, Unwrap(Hit(obj.objs[2], ray, ray_t)).t)
    /\ hit = Hit(obj.objs[1], ray, ray_t)
    /\ passed[2].max = Unwrap(hit).t

\* The outward normal a hit stands for: its normal, negated on a back face.
OutwardNormal(h) == IF h.front_face THEN h.normal ELSE VNeg(h.normal)

\* C4: every returned hit has a unit normal, and front_face tells whether
\* the ray direction has a negative dot product with the outward normal.
C4_UnitFacingNormal ==
    (pc = "done" /\ IsSome(hit)) =>
        /\ UnitLength(Unwrap(hit).normal)
        /\ Unwrap(hit).front_face = RLess(Dot(ray.dir, OutwardNormal(Unwrap(hit))), Zero)

\* Whether a primitive is or holds a RotateY.
RECURSIVE HasRotateY(_)
HasRotateY(o) ==
    CASE o.kind = "RotateY" -> TRUE
      [] o.kind = "Translate" -> HasRotateY(o.object)
      [] o.kind = "Vec" -> \E i \in 1 .. Len(o.objs) : HasRotateY(o.objs[i])
      [] OTHER -> FALSE

\* C4 holds of the spheres, the quads, the aggregates and the translations
\* that hold no RotateY.
C4_WithoutRotateY == HasRotateY(obj) \/ C4_UnitFacingNormal

\* The roots of the ray/sphere quadratic, as Sphere::hit computes them.
RootOf(sign) ==
    SphereRoot(SphereQuadratic(obj, ray),
               RSqrt(Discriminant(SphereQuadratic(obj, ray))), sign)

InOpen(t) == RLess(ray_t.min, t) /\ RLess(t, ray_t.max)

InClosed(t) == RLeq(ray_t.min, t) /\ RLeq(t, ray_t.max)

\* C5 as amended: no hit when the discriminant is negative; else the smaller
\* root if it lies strictly inside the search interval, else the larger root
\* if it lies strictly inside, and none only when neither does.
C5_RootStrictlyInside ==
    (pc = "done" /\ obj.kind = "Sphere") =>
        /\ RLess(Discriminant(SphereQuadratic(obj, ray)), Zero) => hit = None
        /\ InOpen(RootOf(-1)) => (IsSome(hit) /\ Unwrap(hit).t = RootOf(-1))
        /\ (~InOpen(RootOf(-1)) /\ InOpen(RootOf(1))) =>
               (IsSome(hit) /\ Unwrap(hit).t = RootOf(1))
        /\ (~InOpen(RootOf(-1)) /\ ~InOpen(RootOf(1))) => hit = None

\* C5 as stated: the same with the end points of the interval included.
C5_RootInClosedInterval ==
    (pc = "done" /\ obj.kind = "Sphere") =>
        /\ RLess(Discriminant(SphereQuadratic(obj, ray)), Zero) => hit = None
        /\ InClosed(RootOf(-1)) => (IsSome(hit) /\ Unwrap(hit).t = RootOf(-1))
        /\ (~InClosed(RootOf(-1)) /\ InClosed(RootOf(1))) =>
               (IsSome(hit) /\ Unwrap(hit).t = RootOf(1))
        /\ (~InClosed(RootOf(-1)) /\ ~InClosed(RootOf(1))) => hit = None

\* The smaller root is the lower end point of the interval and is passed
\* over: the hit is at the larger root.
C5_Witness ==
    /\ pc = "done" /\ obj.kind = "Sphere"
    /\ RootOf(-1) = ray_t.min
    /\ IsSome(hit) /\ Unwrap(hit).t = RootOf(1)
    /\ RLess(RootOf(-1), RootOf(1))

\* C6: a quad returns a hit exactly when the ray is not parallel to its
\* plane (|denom| >= 1e-8), t lies in the search interval, end points
\* included, and alpha and beta both lie in [0, 1].
C6_QuadHitIff ==
    (pc = "done" /\ obj.kind = "Quad") =>
        ( IsSome(hit) <=>
            /\ RLeq(Norm(1, 100000000), RAbs(Dot(obj.normal, ray.dir)))
            /\ InClosed(QuadT(obj, ray, QuadDenom(obj, ray)))
            /\ \A x \in { QuadPlanar(obj, At(ray, QuadT(obj, ray, QuadDenom(obj, ray)))).alpha,
                          QuadPlanar(obj, At(ray, QuadT(obj, ray, QuadDenom(obj, ray)))).beta } :
                   RLeq(Zero, x) /\ RLeq(x, One) )

\* A plane point within the search interval whose alpha lies in [0, 1] and
\* whose beta does not: rejected.
C6_Witness ==
    /\ pc = "done" /\ obj.kind = "Quad" /\ hit = None
    /\ InClosed(QuadT(obj, ray, QuadDenom(obj, ray)))
    /\ RLeq(Zero, QuadPlanar(obj, At(ray, QuadT(obj, ray, QuadDenom(obj, ray)))).alpha)
    /\ RLeq(QuadPlanar(obj, At(ray, QuadT(obj, ray, QuadDenom(obj, ray)))).alpha, One)
    /\ RLess(One, QuadPlanar(obj, At(ray, QuadT(obj, ray, QuadDenom(obj, ray)))).beta)

\* A sphere, a quad or an aggregate of them, placed at its location moved by
\* offset.
RECURSIVE Moved(_, _)
Moved(o, offset) ==
    CASE o.kind = "Sphere" -> SphereNew(VAdd(o.center, offset), o.radius, o.mat)
      [] o.kind = "Quad" -> QuadNew(VAdd(o.q, offset), o.u, o.v, o.mat)
      [] o.kind = "Vec" -> VecNew([i \in 1 .. Len(o.objs) |-> Moved(o.objs[i], offset)])

\* C7: Translate returns none exactly when the wrapped primitive returns
\* none for the ray moved by -offset; otherwise that hit with only the point
\* moved by offset; and for a sphere or a quad this is the hit of the
\* primitive placed at the translated location.
C7_TranslateRoundTrip ==
    (pc = "done" /\ obj.kind = "Translate") =>
        /\ (hit = None) <=>
               (Hit(obj.object, Ray(VSub(ray.origin, obj.offset), ray.dir), ray_t) = None)
        /\ IsSome(hit) =>
               Unwrap(hit) =
                   [ Unwrap(Hit(obj.object, Ray(VSub(ray.origin, obj.offset), ray.dir), ray_t))
                       EXCEPT !.p = VAdd(@, obj.offset) ]
        /\ obj.object.kind \in {"Sphere", "Quad"} =>
               hit = Hit(Moved(obj.object, obj.offset), ray, ray_t)

\* A translated sphere is hit, away from where the sphere itself would be.
C7_Witness ==
    /\ pc = "done" /\ obj.kind = "Translate" /\ obj.object.kind = "Sphere"
    /\ IsSome(hit)
    /\ hit # Hit(obj.object, ray, ray_t)

\* C8: a primitive rotated by theta and then by -theta returns what the
\* bare primitive returns.
C8_RotateThereAndBack ==
    ( /\ pc = "done" /\ obj.kind = "RotateY" /\ obj.object.kind = "RotateY"
      /\ obj.sin_theta = RNeg(obj.object.sin_theta)
      /\ obj.cos_theta = obj.object.cos_theta ) =>
        hit = Hit(obj.object.object, ray, ray_t)

\* C8 holds of the hit's point, t, front_face and material: only the normal
\* is not restored.
C8_AllButNormal ==
    ( /\ pc = "done" /\ obj.kind = "RotateY" /\ obj.object.kind = "RotateY"
      /\ obj.sin_theta = RNeg(obj.object.sin_theta)
      /\ obj.cos_theta = obj.object.cos_theta ) =>
        /\ (hit = None) <=> (Hit(obj.object.object, ray, ray_t) = None)
        /\ IsSome(hit) =>
               [Unwrap(hit) EXCEPT !.normal = VZero] =
                   [Unwrap(Hit(obj.object.object, ray, ray_t)) EXCEPT !.normal = VZero]

\* -------------------------------------------------- scatter: the harness
ScatterMaterials ==
    { new_lambertian(vec3(Norm(1, 2), Norm(1, 2), Norm(1, 2))),
      new_metal(vec3(Norm(1, 2), Norm(1, 2), One), Zero),
      new_metal(vec3(Norm(1, 2), Norm(1, 2), One), Norm(1, 2)),
      new_metal(vec3(Norm(1, 2), Norm(1, 2), One), R(2)),
      new_dielectric(Norm(3, 2)),
      new_light(IV(4, 4, 4)) }

\* The unit sphere at the origin and a quad in the plane z = 2.
ScatterObjects ==
    {SphereNew(IV(0, 0, 0), R(1), m) : m \in ScatterMaterials}
    \cup {QuadNew(IV(-1, -1, 2), IV(2, 0, 0), IV(0, 2, 0), m) : m \in ScatterMaterials}

\* Rays from outside and from inside the sphere, head-on and slanted.
ScatterRays ==
    { Ray(IV(0, 0, -2), IV(0, 0, 1)),
      Ray(IV(0, 0, 0), IV(0, 0, 1)),
      Ray(IV(0, 0, 0), IV(0, 3, 4)),
      Ray(IV(0, -3, -2), IV(0, 3, 4)) }

\* The rays with the hits the scene gives them over ray_color's interval.
ScatterCases ==
    { c \in { [r |-> r, got |-> Hit(o, r, Interval(ColorEpsilon, Inf))] :
                r \in ScatterRays, o \in ScatterObjects } : IsSome(c.got) }

ScatterInit ==
    /\ pc = "call"
    /\ \E c \in ScatterCases : ray = c.r /\ in_hit = c.got
    /\ drawn = None
    /\ scattered = None
    /\ HitIdle
    /\ CameraIdle
    /\ ColorIdle
    /\ DriverIdle

\* Material::scatter(ray, hit), with the random draws it makes
CallScatter ==
    /\ pc = "call"
    /\ \E d \in DrawsFor(Unwrap(in_hit).material) :
           /\ drawn' = d
           /\ scattered' = Scatter(ray, Unwrap(in_hit), d.rnd, d.u)
    /\ pc' = "done"
    /\ UNCHANGED <<hitVars, in_hit, cameraVars, colorVars, driverVars>>

ScatterNext == CallScatter

SpecScatter == ScatterInit /\ [][ScatterNext]_vars

\* ------------------------------------------------ scatter: the properties
\* The reflection of the normalized incoming direction about the normal,
\* perturbed by the random unit vector scaled by the fuzz clamped to 1.
PerturbedReflection(r, h, rnd) ==
    VAdd(VSub(Normalize(r.dir),
              VScale(RMul(R(2), Dot(Normalize(r.dir), h.normal)), h.normal)),
         VScale(RMin(h.material.fuzz, One), rnd))

\* C9: a Lambertian always scatters, in a direction that is not the zero
\* vector (the normal when normal + random vector is near zero); a
\* Dielectric always scatters with white attenuation; a DiffuseLight never
\* scatters; a Metal scatters exactly when the perturbed reflection has a
\* positive dot product with the normal.
C9_ScatterByKind ==
    pc = "done" /\ IsSome(in_hit) =>
        /\ Unwrap(in_hit).material.kind = "Lambertian" =>
               /\ IsSome(scattered)
               /\ Unwrap(scattered).ray.dir # VZero
               /\ Unwrap(scattered).ray.origin = Unwrap(in_hit).p
               /\ IsNearZero(VAdd(Unwrap(in_hit).normal, drawn.rnd)) =>
                      Unwrap(scattered).ray.dir = Unwrap(in_hit).normal
        /\ Unwrap(in_hit).material.kind = "Dielectric" =>
               IsSome(scattered) /\ Unwrap(scattered).attenuation = IV(1, 1, 1)
        /\ Unwrap(in_hit).material.kind = "DiffuseLight" => scattered = None
        /\ Unwrap(in_hit).material.kind = "Metal" =>
               ( IsSome(scattered) <=>
                   RLess(Zero, Dot(PerturbedReflection(ray, Unwrap(in_hit), drawn.rnd),
                                   Unwrap(in_hit).normal)) )

\* A Lambertian hit whose normal and random unit vector cancel: the
\* scattered direction is the normal.
C9_Witness ==
    /\ pc = "done" /\ IsSome(in_hit)
    /\ Unwrap(in_hit).material.kind = "Lambertian"
    /\ VAdd(Unwrap(in_hit).normal, drawn.rnd) = VZero
    /\ IsSome(scattered)
    /\ Unwrap(scattered).ray.dir = Unwrap(in_hit).normal

\* --------------------------------------------------- camera: the harness
\* The image widths and heights Camera::builder is called with.
ImageSizes == {0, MaxImage}

SampleCounts == {1, 10}

Depths == {2, 10}

Backgrounds == {IV(1, 1, 1), IV(0, 0, 0)}

FovAngles == {90, 53}

\* look_from: the default, the default look_at, and a point off the axes.
LookFroms == {IV(0, 0, -1), IV(0, 0, 0), IV(3, 0, 4)}

LookAts == {IV(0, 0, 0), IV(0, 0, -1)}

\* vup: the default, and a vector along the default viewing direction.
LookUps == {IV(0, 1, 0), IV(0, 0, 1)}

DefocusAngles == {0, 90}

FocusDists == {R(10), R(1)}

\* No call has given any field of the configuration yet.
NoCall ==
    [ f \in { "image_width", "image_height", "samples_per_pixel", "max_depth",
              "background", "v_fov", "look_from", "look_at", "vup",
              "defocus_angle", "focus_dist" } |-> None ]

CameraInit ==
    /\ pc = "builder"
    /\ \E w \in ImageSizes, h \in ImageSizes :
           /\ builder = Some(CameraBuilder(w, h))
           /\ last_call = [NoCall EXCEPT !.image_width = Some(w), !.image_height = Some(h)]
    /\ camera = None
    /\ ray = None
    /\ HitIdle
    /\ ScatterIdle
    /\ ColorIdle
    /\ DriverIdle

CallSamples ==
    /\ pc = "builder"
    /\ \E n \in SampleCounts :
           /\ builder' = Some(samples(Unwrap(builder), n))
           /\ last_call' = [last_call EXCEPT !.samples_per_pixel = Some(n)]
    /\ UNCHANGED <<pc, hitVars, scatterVars, camera, colorVars, driverVars>>

CallMaxDepth ==
    /\ pc = "builder"
    /\ \E n \in Depths :
           /\ builder' = Some(max_depth(Unwrap(builder), n))
           /\ last_call' = [last_call EXCEPT !.max_depth = Some(n)]
    /\ UNCHANGED <<pc, hitVars, scatterVars, camera, colorVars, driverVars>>

CallBackground ==
    /\ pc = "builder"
    /\ \E c \in Backgrounds :
           /\ builder' = Some(background(Unwrap(builder), c))
           /\ last_call' = [last_call EXCEPT !.background = Some(c)]
    /\ UNCHANGED <<pc, hitVars, scatterVars, camera, colorVars, driverVars>>

CallVertFov ==
    /\ pc = "builder"
    /\ \E a \in FovAngles :
           /\ builder' = Some(vert_fov(Unwrap(builder), a))
           /\ last_call' = [last_call EXCEPT !.v_fov = Some(a)]
    /\ UNCHANGED <<pc, hitVars, scatterVars, camera, colorVars, driverVars>>

CallLookFrom ==
    /\ pc = "builder"
    /\ \E p \in LookFroms :
           /\ builder' = Some(look_from(Unwrap(builder), p))
           /\ last_call' = [last_call EXCEPT !.look_from = Some(p)]
    /\ UNCHANGED <<pc, hitVars, scatterVars, camera, colorVars, driverVars>>

CallLookAt ==
    /\ pc = "builder"
    /\ \E p \in LookAts :
           /\ builder' = Some(look_at(Unwrap(builder), p))
           /\ last_call' = [last_call EXCEPT !.look_at = Some(p)]
    /\ UNCHANGED <<pc, hitVars, scatterVars, camera, colorVars, driverVars>>

CallLookUp ==
    /\ pc = "builder"
    /\ \E v \in LookUps :
           /\ builder' = Some(look_up(Unwrap(builder), v))
           /\ last_call' = [last_call EXCEPT !.vup = Some(v)]
    /\ UNCHANGED <<pc, hitVars, scatterVars, camera, colorVars, driverVars>>

CallDefocusAngle ==
    /\ pc = "builder"
    /\ \E a \in DefocusAngles :
           /\ builder' = Some(defocus_angle(Unwrap(builder), a))
           /\ last_call' = [last_call EXCEPT !.defocus_angle = Some(a)]
    /\ UNCHANGED <<pc, hitVars, scatterVars, camera, colorVars, driverVars>>

CallFocusDist ==
    /\ pc = "builder"
    /\ \E d \in FocusDists :
           /\ builder' = Some(focus_dist(Unwrap(builder), d))
           /\ last_call' = [last_call EXCEPT !.focus_dist = Some(d)]
    /\ UNCHANGED <<pc, hitVars, scatterVars, camera, colorVars, driverVars>>

\* CameraBuilder::build; builder keeps the configuration the Camera came from
CallBuild ==
    /\ pc = "builder"
    /\ camera' = Some(build(Unwrap(builder)))
    /\ pc' = "built"
    /\ UNCHANGED <<hitVars, scatterVars, builder, last_call, colorVars, driverVars>>

CameraNext ==
    \/ CallSamples
    \/ CallMaxDepth
    \/ CallBackground
    \/ CallVertFov
    \/ CallLookFrom
    \/ CallLookAt
    \/ CallLookUp
    \/ CallDefocusAngle
    \/ CallFocusDist
    \/ CallBuild

SpecCamera == CameraInit /\ [][CameraNext]_vars

\* ------------------------------------------------ camera: the properties
\* look_from equals look_at, or vup is along the viewing direction, or the
\* image has no columns or no rows.
Degenerate(b) ==
    \/ b.look_from = b.look_at
    \/ Cross(b.vup, VSub(b.look_from, b.look_at)) = VZero
    \/ b.image_width = 0
    \/ b.image_height = 0

\* No derived parameter of the Camera is NaN or infinite.
CameraFinite(cam) ==
    /\ VFinite(cam.pixel00_loc)
    /\ VFinite(cam.pixel_delta_u)
    /\ VFinite(cam.pixel_delta_v)
    /\ VFinite(cam.defocus_disk_u)
    /\ VFinite(cam.defocus_disk_v)

\* The documented defaults: 10 samples, depth 10, background white, fov 90
\* degrees, no defocus, focus distance 10; and the orientation a builder
\* starts with: looking from (0, 0, -1) at the origin, up along y.
DocumentedDefault(f) ==
    CASE f = "samples_per_pixel" -> 10
      [] f = "max_depth" -> 10
      [] f = "background" -> IV(1, 1, 1)
      [] f = "v_fov" -> 90
      [] f = "look_from" -> IV(0, 0, -1)
      [] f = "look_at" -> IV(0, 0, 0)
      [] f = "vup" -> IV(0, 1, 0)
      [] f = "defocus_angle" -> 0
      [] f = "focus_dist" -> R(10)

\* C11: after Camera::builder(width, height) and any sequence of setter
\* calls, before and after build, every field of the configuration holds
\* the argument of the last call made for it (the setter's, or builder's
\* for the image width and height), or its documented default when its
\* setter was never called; so no setter changes another's field.
C11_LastSetterOrDefault ==
    pc \in {"builder", "built"} =>
        \A f \in DOMAIN last_call :
            Unwrap(builder)[f] = IF last_call[f] = None THEN DocumentedDefault(f)
                                 ELSE Unwrap(last_call[f])

\* A configuration with a field never set, a field set to another value
\* than its default, and a field set back to its default value.
C11_Witness ==
    /\ pc = "builder"
    /\ last_call.samples_per_pixel = None
    /\ last_call.max_depth = Some(2)
    /\ last_call.v_fov = Some(53)
    /\ last_call.background = Some(IV(1, 1, 1))
    /\ last_call.look_from = Some(IV(3, 0, 4))
    /\ last_call.image_width = Some(MaxImage)

\* C10: finalizing a degenerate configuration produces no Camera, and no
\* Camera produced has a NaN or infinite derived parameter.
C10_DegenerateRejected ==
    pc = "built" =>
        /\ Degenerate(Unwrap(builder)) => camera = None
        /\ IsSome(camera) => CameraFinite(Unwrap(camera))

\* What the code does: every configuration yields a Camera, and its
\* derived parameters are finite exactly when the configuration is not
\* degenerate.
C10_BuildNeverFails ==
    pc = "built" =>
        /\ IsSome(camera)
        /\ CameraFinite(Unwrap(camera)) <=> ~Degenerate(Unwrap(builder))

\* ------------------------------------------------ ray_color: the harness
\* A Lambertian floor under a light; a fuzzy metal sphere in front of a
\* light; a glass sphere, where every hit scatters; a closed pair of
\* Lambertian walls; and the empty scene.
ColorWorlds ==
    { VecNew(<< QuadNew(IV(-2, 0, -2), IV(4, 0, 0), IV(0, 0, 4), MatA),
                QuadNew(IV(-1, 2, -1), IV(2, 0, 0), IV(0, 0, 2), MatB) >>),
      VecNew(<< QuadNew(IV(-2, -2, 0), IV(4, 0, 0), IV(0, 4, 0),
                        new_metal(vec3(Norm(1, 2), Norm(1, 2), One), Norm(1, 2))),
                QuadNew(IV(-1, -1, -3), IV(2, 0, 0), IV(0, 2, 0), MatB) >>),
      VecNew(<< SphereNew(IV(0, 0, 0), R(1), new_dielectric(Norm(3, 2))) >>),
      VecNew(<< QuadNew(IV(-2, 0, -2), IV(4, 0, 0), IV(0, 0, 4), MatA),
                QuadNew(IV(-2, 2, -2), IV(4, 0, 0), IV(0, 0, 4), MatA) >>),
      VecNew(<<>>) }

\* The rays get_ray hands to ray_color: down onto the floor and the
\* spheres, along z into the spheres, and up into the light.
ColorRays ==
    { Ray(IV(0, 1, 0), IV(0, -1, 0)),
      Ray(IV(0, 0, -2), IV(0, 0, 1)),
      Ray(IV(0, 1, 0), IV(0, 1, 0)) }

\* A call that draws nothing
NoDraw == [rnd |-> None, u |-> None]

\* The random draws a call of ray_color makes, given what world.hit returns
DrawsAt(got) == IF got = None THEN {NoDraw} ELSE DrawsFor(Unwrap(got).material)

\* The random draws the call c of ray_color makes
RayColorDraws(c) == IF c.depth = 0 THEN {NoDraw} ELSE DrawsAt(WorldHit(world, c.ray))

ColorInit ==
    /\ pc = "render"
    /\ \E d \in 0 .. MaxDepth, bg \in Backgrounds :
           builder = Some(background(max_depth(CameraBuilder(1, 1), d), bg))
    /\ camera = Some(build(Unwrap(builder)))
    /\ last_call = None
    /\ world \in ColorWorlds
    /\ ray \in ColorRays
    /\ stack = <<>>
    /\ call = None
    /\ ret = None
    /\ queries = 0
    /\ HitIdle
    /\ ScatterIdle
    /\ DriverIdle

\* Camera::render, one sample: self.ray_color(&ray, self.max_depth, world)
RenderSample ==
    /\ pc = "render"
    /\ call' = Some([ray |-> ray, depth |-> Unwrap(camera).max_depth])
    /\ pc' = "ray_color"
    /\ UNCHANGED <<hitVars, scatterVars, cameraVars, world, stack, ret, queries, driverVars>>

\* The call c of ray_color, having drawn d, returns out.value
RayColorReturns(c, d, out) ==
    /\ out.kind = "return"
    /\ ret' = Some([ ray |-> c.ray, depth |-> c.depth, drawn |-> d,
                     value |-> out.value, callee |-> None ])
    /\ call' = None
    /\ pc' = IF stack = <<>> THEN "returned" ELSE "resume"
    /\ queries' = IF c.depth = 0 THEN queries ELSE queries + 1
    /\ UNCHANGED stack

\* A faulty variant of RayColorRecurses: the depth is passed on as it is.
RayColorRecursesSameDepth(c, d, out) ==
    /\ out.kind = "recurse"
    /\ stack' = Append(stack, [ ray |-> c.ray, depth |-> c.depth, drawn |-> d,
                                emission_color |-> out.emission_color,
                                attenuation |-> out.attenuation ])
    /\ call' = Some([ray |-> out.ray, depth |-> c.depth])
    /\ ret' = None
    /\ queries' = queries + 1
    /\ UNCHANGED pc

\* The call c of ray_color, having drawn d, calls ray_color(out.ray, depth - 1)
RayColorRecurses(c, d, out) ==
    /\ out.kind = "recurse"
    /\ stack' = Append(stack, [ ray |-> c.ray, depth |-> c.depth, drawn |-> d,
                                emission_color |-> out.emission_color,
                                attenuation |-> out.attenuation ])
    /\ call' = Some([ray |-> out.ray, depth |-> c.depth - 1])
    /\ ret' = None
    /\ queries' = queries + 1
    /\ UNCHANGED pc

\* Camera::ray_color, a call that returns without calling itself
RayColorReturn ==
    /\ pc = "ray_color"
    /\ \E d \in RayColorDraws(Unwrap(call)) :
           RayColorReturns(Unwrap(call), d,
                           RayColorEnter(Unwrap(camera), Unwrap(call).ray,
                                         Unwrap(call).depth, world, d))
    /\ UNCHANGED <<hitVars, scatterVars, cameraVars, world, driverVars>>

\* Camera::ray_color, a call up to where it calls itself
RayColorRecurse ==
    /\ pc = "ray_color"
    /\ \E d \in RayColorDraws(Unwrap(call)) :
           RayColorRecurses(Unwrap(call), d,
                            RayColorEnter(Unwrap(camera), Unwrap(call).ray,
                                          Unwrap(call).depth, world, d))
    /\ UNCHANGED <<hitVars, scatterVars, cameraVars, world, driverVars>>

\* The call f of ray_color returns, its recursive call having returned child
RayColorResumes(f, child) ==
    /\ ret' = Some([ ray |-> f.ray, depth |-> f.depth, drawn |-> f.drawn,
                     value |-> RayColorResume(f.emission_color, f.attenuation, child.value),
                     callee |-> Some([ ray |-> child.ray, depth |-> child.depth,
                                       value |-> child.value ]) ])
    /\ stack' = SubSeq(stack, 1, Len(stack) - 1)
    /\ pc' = IF Len(stack) = 1 THEN "returned" ELSE "resume"

\* Camera::ray_color, from the return of its recursive call to its own
RayColorReturnTo ==
    /\ pc = "resume"
    /\ RayColorResumes(stack[Len(stack)], Unwrap(ret))
    /\ UNCHANGED <<hitVars, scatterVars, cameraVars, world, call, queries, driverVars>>

ColorNext ==
    \/ RenderSample
    \/ RayColorReturn
    \/ RayColorRecurse
    \/ RayColorReturnTo

SpecColor == ColorInit /\ [][ColorNext]_vars

\* ---------------------------------------------- ray_color: the properties
\* C1: a call of ray_color with depth >= 1 returns the background when the
\* scene reports no hit over [0.001, inf); at a hit whose material scatters
\* it has called ray_color(scattered ray, depth - 1) and returns the
\* emitted radiance plus the attenuation times what that call returned; at
\* a hit whose material does not scatter it returns the emitted radiance
\* plus zero. Only a DiffuseLight emits.
C1_Returned(c, got) ==
    IF got = None
    THEN c.value = Unwrap(camera).background /\ c.callee = None
    ELSE LET h == Unwrap(got)
             sc == Scatter(c.ray, h, c.drawn.rnd, c.drawn.u)
             emitted == IF h.material.kind = "DiffuseLight"
                        THEN h.material.emit ELSE IV(0, 0, 0)
         IN  IF IsSome(sc)
             THEN /\ IsSome(c.callee)
                  /\ Unwrap(c.callee).ray = Unwrap(sc).ray
                  /\ Unwrap(c.callee).depth = c.depth - 1
                  /\ c.value = VAdd(emitted, VMul(Unwrap(sc).attenuation,
                                                  Unwrap(c.callee).value))
             ELSE /\ c.callee = None
                  /\ c.value = VAdd(emitted, IV(0, 0, 0))

C1_RayColorStructure ==
    IsSome(ret) /\ Unwrap(ret).depth >= 1 =>
        C1_Returned(Unwrap(ret),
                    Hit(world, Unwrap(ret).ray, Interval(Norm(1, 1000), Inf)))

\* A call that hit a scattering surface and whose recursive call returned
\* radiance: its value is neither the emitted radiance nor the callee's.
C1_Witness ==
    /\ IsSome(ret)
    /\ Unwrap(ret).depth >= 1
    /\ IsSome(Unwrap(ret).callee)
    /\ Unwrap(Unwrap(ret).callee).value \notin {IV(0, 0, 0), Unwrap(ret).value}
    /\ Unwrap(ret).value # IV(0, 0, 0)

\* C2: a call of ray_color with depth 0 returns zero radiance and calls
\* nothing, whatever the ray and the scene; so a call with depth 1 that hits
\* a surface returns exactly what the surface emits.
C2_DepthZeroIsBlack ==
    IsSome(ret) =>
        /\ Unwrap(ret).depth = 0 =>
               Unwrap(ret).value = IV(0, 0, 0) /\ Unwrap(ret).callee = None
        /\ Unwrap(ret).depth = 1 /\ WorldHit(world, Unwrap(ret).ray) # None =>
               Unwrap(ret).value = Emitted(Unwrap(WorldHit(world, Unwrap(ret).ray)).material)

\* A call with depth 0, made by a call that scattered, whose ray hits a
\* light while the background is not black either.
C2_Witness ==
    /\ IsSome(ret)
    /\ Unwrap(ret).depth = 0
    /\ stack # <<>>
    /\ Unwrap(camera).background # IV(0, 0, 0)
    /\ WorldHit(world, Unwrap(ret).ray) # None
    /\ Unwrap(WorldHit(world, Unwrap(ret).ray)).material.kind = "DiffuseLight"

\* The chain of calls below render's: each call's depth is one less than
\* its caller's, starting from max_depth, and world.hit has been asked at
\* most max_depth times.
ChainBounded ==
    pc \in {"ray_color", "resume", "returned"} =>
        /\ \A i \in 1 .. Len(stack) :
               stack[i].depth = Unwrap(camera).max_depth - (i - 1)
        /\ IsSome(call) => Unwrap(call).depth = Unwrap(camera).max_depth - Len(stack)
        /\ queries <= Unwrap(camera).max_depth

\* A call that got its recursive call's value back calls nothing more: it
\* returns.
OneRecursiveCall ==
    pc = "resume" => Len(stack') = Len(stack) - 1 /\ call' = None /\ pc' # "ray_color"

\* The steps one sample's ray_color has left at most: two for each level of
\* depth the running call may still descend, one for each call waiting.
Remaining ==
    CASE pc = "render" -> 2 * Unwrap(camera).max_depth + 2
      [] pc = "ray_color" -> 2 * Unwrap(call).depth + Len(stack) + 1
      [] pc = "resume" -> Len(stack)
      [] pc = "returned" -> 0

\* Before the sample has returned, its next step can be taken: the running
\* call returns or calls itself, a waiting call gets a value back.
CanStep ==
    CASE pc = "render" -> IsSome(camera)
      [] pc = "ray_color" ->
             /\ IsSome(call)
             /\ RayColorDraws(Unwrap(call)) # {}
             /\ \A d \in RayColorDraws(Unwrap(call)) :
                    RayColorEnter(Unwrap(camera), Unwrap(call).ray,
                                  Unwrap(call).depth, world, d).kind
                        \in {"return", "recurse"}
      [] pc = "resume" -> stack # <<>> /\ IsSome(ret)
      [] pc = "returned" -> stack = <<>> /\ IsSome(ret)

\* C12: one sample's ray_color terminates (a step can always be taken until
\* it has returned, and every step lowers the bounded count Remaining);
\* each recursive call gets a depth exactly 1 smaller than its caller's, a
\* call makes at most one recursive call, and the chain asks the scene at
\* most max_depth times, also where every surface scatters.
C12_Terminates ==
    /\ [](ChainBounded /\ CanStep /\ Remaining >= 0)
    /\ [][OneRecursiveCall /\ Remaining' < Remaining]_vars

\* A sample in a scene whose surfaces always scatter that returned after
\* using its whole budget of max_depth >= 2 scene queries.
C12_Witness ==
    /\ pc = "returned"
    /\ stack = <<>>
    /\ Unwrap(camera).max_depth >= 2
    /\ queries = Unwrap(camera).max_depth
    /\ IsSome(Unwrap(ret).callee)
    /\ \A i \in 1 .. Len(world.objs) :
           world.objs[i].mat.kind \in {"Lambertian", "Dielectric"}

\* ------------------------------------------------------ render: one pixel
\* Camera::random_in_unit_disk: the vectors it can return, the accepted
\* candidates (length_squared < 1)
DiskCandidates ==
    { vec3(Zero, Zero, Zero), vec3(Norm(1, 2), Zero, Zero),
      vec3(Zero, Norm(-1, 2), Zero), vec3(R(-1), R(-1), Zero) }

RandomInUnitDisk == {v \in DiskCandidates : RLess(LengthSquared(v), One)}

\* Camera::random_pixel_sample; u1 and u2 are what rand::random returned
RandomPixelSample(cam, u1, u2) ==
    VAdd(VScale(RSub(u1, Norm(1, 2)), cam.pixel_delta_u),
         VScale(RSub(u2, Norm(1, 2)), cam.pixel_delta_v))

\* Camera::defocus_disk_sample; p is what random_in_unit_disk returned
DefocusDiskSample(cam, p) ==
    VAdd(VAdd(cam.center, VScale(p[1], cam.defocus_disk_u)),
         VScale(p[2], cam.defocus_disk_v))

\* Camera::get_ray: pixel_center
PixelCenter(cam, x, y) ==
    VAdd(VAdd(cam.pixel00_loc, VScale(R(x), cam.pixel_delta_u)),
         VScale(R(y), cam.pixel_delta_v))

\* Camera::get_ray: ray_origin
GetRayOrigin(cam, p) ==
    IF cam.defocus_angle <= 0 THEN cam.center ELSE DefocusDiskSample(cam, p)

\* Camera::get_ray, given ray_origin and pixel_sample
GetRayFrom(ray_origin, pixel_sample) == Ray(ray_origin, VSub(pixel_sample, ray_origin))

\* Camera::get_ray; d holds the random draws it makes
GetRay(cam, x, y, d) ==
    GetRayFrom(GetRayOrigin(cam, d.p),
               VAdd(PixelCenter(cam, x, y), RandomPixelSample(cam, d.u1, d.u2)))

\* The random draws Camera::get_ray makes: two uniform draws, and a point of
\* the unit disk when the camera has a defocus angle
GetRayDraws(cam) ==
    { [u1 |-> a, u2 |-> b, p |-> q] :
        a \in Uniforms, b \in Uniforms,
        q \in IF cam.defocus_angle <= 0 THEN {None} ELSE RandomInUnitDisk }

\* The rays get_ray can return for the pixel
GetRays(cam, x, y) == {GetRay(cam, x, y, d) : d \in GetRayDraws(cam)}

RECURSIVE RayColorValues(_, _, _, _)

\* The values a call of ray_color can return after out, what it did up to
\* its recursive call
RayColorValuesAfter(cam, depth, scene, out) ==
    IF out.kind = "return" THEN {out.value}
    ELSE { RayColorResume(out.emission_color, out.attenuation, child) :
             child \in RayColorValues(cam, out.ray, depth - 1, scene) }

\* Camera::ray_color: the values it can return, over the random draws
\* Material::scatter makes
RayColorValues(cam, r, depth, scene) ==
    UNION { RayColorValuesAfter(cam, depth, scene,
                                RayColorEnter(cam, r, depth, scene, d)) :
              d \in IF depth = 0 THEN {NoDraw} ELSE DrawsAt(WorldHit(scene, r)) }

\* Camera::render: the values one sample can add to color
SampleValues(cam, x, y, scene) ==
    UNION { RayColorValues(cam, r, cam.max_depth, scene) : r \in GetRays(cam, x, y) }

RECURSIVE RenderSums(_, _)

\* Camera::render: the values color can have after n samples, each adding
\* one of values
RenderSums(n, values) ==
    IF n = 0 THEN {IV(0, 0, 0)}
    ELSE {VAdd(color, v) : color \in RenderSums(n - 1, values), v \in values}

\* Camera::render: the values it can return for the pixel
RenderValues(cam, x, y, scene) ==
    { VDiv(color, R(cam.samples_per_pixel)) :
        color \in RenderSums(cam.samples_per_pixel, SampleValues(cam, x, y, scene)) }

\* ----------------------------------------------------------------- canvas
\* Canvas::new
CanvasNew(width, height) ==
    [size |-> <<width, height>>, data |-> [i \in 0 .. width * height * 3 - 1 |-> 0]]

\* Canvas::linear_to_gamma_2
LinearToGamma2(component) == RSqrt(component)

\* f32::clamp(0.0, 1.0); a NaN stays a NaN
Clamp01(c) == IF IsNaN(c) THEN c ELSE RMax(Zero, RMin(c, One))

\* `as u8` of a value between 0 and 256: the integer part; 0 for a NaN
AsU8(c) == IF IsNaN(c) THEN 0 ELSE c[1] \div c[2]

\* Canvas::draw: the byte stored for one component of the color
DrawByte(c) == AsU8(RMul(Clamp01(LinearToGamma2(c)), Norm(2559999, 10000)))

\* Canvas::draw: data, given idx
CanvasDrawAt(self, at, color) ==
    [ self EXCEPT !.data = [ i \in DOMAIN self.data |->
                               IF i \in at .. at + 2 THEN DrawByte(color[i - at + 1])
                               ELSE self.data[i] ] ]

\* Canvas::draw
CanvasDraw(self, x, y, color) == CanvasDrawAt(self, (y * self.size[1] + x) * 3, color)

\* ------------------------------------------------------------ the driver
\* main's WIDTH and HEIGHT: ASPECT is 1
Width == MaxImage

Height == MaxImage

\* rayon's worker threads
Workers == 1 .. MaxWorkers

\* The Vec collect_into_vec has cleared
ClearedVec == [x \in 0 .. Width - 1 |-> None]

\* A faulty variant of CollectAt: results are pushed as the workers finish.
CollectInArrivalOrder(buffer, x, color) ==
    [ buffer EXCEPT ![Cardinality({i \in DOMAIN buffer : IsSome(buffer[i])})] =
                        Some(color) ]

\* collect_into_vec: the result for item x of the indexed iterator goes to
\* position x of the Vec
CollectAt(buffer, x, color) == [buffer EXCEPT ![x] = Some(color)]

RECURSIVE DrawUpTo(_, _, _, _)

\* main: the first n turns of `for (x, color) in scanline.iter().enumerate()`
DrawUpTo(self, buffer, y, n) ==
    IF n = 0 THEN self
    ELSE CanvasDraw(DrawUpTo(self, buffer, y, n - 1), n - 1, y, Unwrap(buffer[n - 1]))

\* A light that fills the part of the view with x >= 0, and the empty scene
DriverWorlds ==
    { VecNew(<< QuadNew(IV(0, -5, 3), IV(20, 0, 0), IV(0, 20, 0), MatB) >>),
      VecNew(<<>>) }

\* main: canvas, world and camera as constructed, scanline empty
DriverInit ==
    /\ pc = "for_y"
    /\ builder = Some(background(max_depth(samples(CameraBuilder(Width, Height), 2), 2),
                                 vec3(Norm(1, 4), Norm(1, 4), Norm(1, 4))))
    /\ camera = Some(build(Unwrap(builder)))
    /\ last_call = None
    /\ world \in DriverWorlds
    /\ stack = <<>> /\ call = None /\ ret = None /\ queries = 0
    /\ line = 0
    /\ todo = {}
    /\ work = [w \in Workers |-> None]
    /\ scanline = ClearedVec
    /\ canvas = CanvasNew(Width, Height)
    /\ rendered = [px \in (0 .. Width - 1) \X (0 .. Height - 1) |-> <<>>]
    /\ ray = None
    /\ HitIdle
    /\ ScatterIdle

\* main: `for y in 0..HEIGHT` starts a scanline: the parallel iterator over
\* 0..WIDTH, collected into the cleared scanline
StartScanline ==
    /\ pc = "for_y"
    /\ line < Height
    /\ todo' = 0 .. Width - 1
    /\ scanline' = ClearedVec
    /\ pc' = "par_iter"
    /\ UNCHANGED <<hitVars, scatterVars, cameraVars, colorVars,
                   line, work, canvas, rendered>>

\* A worker thread takes an item of the parallel iterator
TakePixel(w) ==
    /\ pc = "par_iter"
    /\ work[w] = None
    /\ \E x \in todo :
           /\ work' = [work EXCEPT ![w] = Some(x)]
           /\ todo' = todo \ {x}
    /\ UNCHANGED <<pc, hitVars, scatterVars, cameraVars, colorVars,
                   line, scanline, canvas, rendered>>

\* The worker's `camera.render(x, y, &world)`, and its result collected
RenderPixelOf(w, x) ==
    \E color \in RenderValues(Unwrap(camera), x, line, world) :
        /\ scanline' = CollectAt(scanline, x, color)
        /\ rendered' = [rendered EXCEPT ![<<x, line>>] = Append(@, color)]
        /\ work' = [work EXCEPT ![w] = None]

RenderPixel(w) ==
    /\ pc = "par_iter"
    /\ IsSome(work[w])
    /\ RenderPixelOf(w, Unwrap(work[w]))
    /\ UNCHANGED <<pc, hitVars, scatterVars, cameraVars, colorVars,
                   line, todo, canvas>>

\* collect_into_vec returns: every item has been taken and rendered
Collected ==
    /\ pc = "par_iter"
    /\ todo = {}
    /\ \A w \in Workers : work[w] = None
    /\ pc' = "draw"
    /\ UNCHANGED <<hitVars, scatterVars, cameraVars, colorVars, driverVars>>

\* main: the loop that draws the scanline on the canvas, and y's next value
DrawScanline ==
    /\ pc = "draw"
    /\ canvas' = DrawUpTo(canvas, scanline, line, Width)
    /\ line' = line + 1
    /\ pc' = "for_y"
    /\ UNCHANGED <<hitVars, scatterVars, cameraVars, colorVars,
                   todo, work, scanline, rendered>>

\* main: after the last scanline, canvas.save
Save ==
    /\ pc = "for_y"
    /\ line = Height
    /\ pc' = "saved"
    /\ UNCHANGED <<hitVars, scatterVars, cameraVars, colorVars, driverVars>>

DriverNext ==
    \/ StartScanline
    \/ \E w \in Workers : TakePixel(w)
    \/ \E w \in Workers : RenderPixel(w)
    \/ Collected
    \/ DrawScanline
    \/ Save

SpecDriver == DriverInit /\ [][DriverNext]_vars

\* --------------------------------------------- the driver: the properties
\* The pixels of the image
Pixels == (0 .. Width - 1) \X (0 .. Height - 1)

\* Every pixel has been rendered at most once, and exactly once when its
\* scanline has been collected; what position x of the scanline buffer holds
\* is what render returned for pixel x; and the canvas holds, for the
\* scanlines drawn, the bytes of what render returned for each pixel.
RenderedOnceInPlace ==
    pc \in {"for_y", "par_iter", "draw", "saved"} =>
        /\ \A px \in Pixels :
               /\ Len(rendered[px]) <= 1
               /\ (px[2] < line \/ (px[2] = line /\ pc = "draw")) => Len(rendered[px]) = 1
               /\ px[2] < line =>
                      \A k \in 0 .. 2 :
                          canvas.data[(px[2] * Width + px[1]) * 3 + k] =
                              DrawByte(rendered[px][1][k + 1])
               /\ px[2] >= line =>
                      \A k \in 0 .. 2 : canvas.data[(px[2] * Width + px[1]) * 3 + k] = 0
        /\ pc \in {"par_iter", "draw"} =>
               \A x \in 0 .. Width - 1 :
                   /\ IsSome(scanline[x]) <=> rendered[<<x, line>>] # <<>>
                   /\ IsSome(scanline[x]) => rendered[<<x, line>>] = <<Unwrap(scanline[x])>>
        /\ pc = "saved" => line = Height

\* No step writes the scene or the camera, and a step that writes the
\* canvas is the driver's, taken when no worker runs and every pixel of the
\* scanline has been collected.
WorkersWriteNothingShared ==
    /\ world' = world
    /\ camera' = camera
    /\ canvas' # canvas =>
           /\ pc = "draw"
           /\ todo = {}
           /\ \A w \in Workers : work[w] = None
           /\ \A x \in 0 .. Width - 1 : IsSome(scanline[x])

\* C13: while the pixels of a scanline are rendered in parallel, under
\* every interleaving the scene and the camera keep their constructed
\* values, each pixel is rendered exactly once, its result is at position x
\* of the scanline buffer whatever the order the workers finish in, and the
\* canvas is written only by the driver after the scanline is collected.
C13_ParallelScanline ==
    /\ []RenderedOnceInPlace
    /\ [][WorkersWriteNothingShared]_vars

\* After the driver has drawn a first scanline, a worker has collected the
\* last pixel of the next one while another still renders its first pixel.
C13_Witness ==
    /\ pc = "par_iter"
    /\ line >= 1
    /\ \E i \in DOMAIN canvas.data : canvas.data[i] # 0
    /\ scanline[0] = None
    /\ IsSome(scanline[Width - 1])
    /\ \E w \in Workers : work[w] = Some(0)

====
